---- MODULE Spec2Model ----
(***************************************************************************)
(* Model of miw_s24611_task03.py: one run of regression() on a CSV table,  *)
(* with a strategy selector and a polynomial degree taken from argv.       *)
(*                                                                         *)
(* Scalars.  A table cell or a number handed to save_equation is a tuple:  *)
(*   << >>      a missing value (NaN)                                      *)
(*   <<k>>      the integer k (an int64 cell, a Python int)                *)
(*   <<n, d>>   the float64 nearest to n/d, d > 0, in lowest terms         *)
(*   <<n, d, "rounded">>                                                   *)
(*              a float64 that the rounding of a computation has left near *)
(*              n/d; which float64, the source does not determine          *)
(*   <<0, 0>>   a float64 of which the source determines nothing           *)
(* After preprocessing x and y are plain integers.                         *)
(*                                                                         *)
(* A word of the command line that the program reads character by          *)
(* character (the degree) is a tuple of Unicode code points; the other     *)
(* words are strings.                                                      *)
(***************************************************************************)
EXTENDS Integers, Sequences, FiniteSets, TLC

VARIABLES
    argv,                  \* sys.argv
    data_frame,            \* pd.read_csv(INPUT_FILE_PATH): [columns, rows]
    ALGORITHM_TYPE,        \* << >> or <<sys.argv[2]>>
    DEGREE_OF_POLYNOMIAL,  \* << >> or <<int(sys.argv[3])>>
    pc,                    \* position in regression()
    data,                  \* << >> or <<rows>>: the cleaned n x 2 array
    split,                 \* << >> or <<[train, test, x_train, y_train, x_test]>>
    design,                \* << >> or <<[train, test]>>: the expanded matrices
    model,                 \* << >> or <<[coef_, intercept_]>>: LinearRegression
    coefficient,           \* << >> or <<vector>>: what save_equation is handed
    prediction,            \* << >> or <<[x_test, y_prediction]>>: sorted outputs
    equation,              \* << >> or <<text of equation.txt>>
    figure,                \* << >> or <<[title, xlabel, ylabel]>>: plot.png
    stdout,                \* lines printed
    error                  \* << >> or <<[type, at]>>: the uncaught exception

vars == <<argv, data_frame, ALGORITHM_TYPE, DEGREE_OF_POLYNOMIAL, pc, data, split,
          design, model, coefficient, prediction, equation, figure,
          stdout, error>>

-----------------------------------------------------------------------------
(* Bounds of the model.                                                    *)

MaxRows == 4       \* rows of the CSV table in a full run
MaxDegree == 2     \* largest degree given on the command line
MaxWideRows == 11  \* rows of the cleaned data in the wide runs
MaxCoefs == 4      \* length of a vector handed to save_equation directly
MaxPreRows == 2    \* rows of a table handed to preprocess_data directly

-----------------------------------------------------------------------------
(* Real-number arithmetic on the values of float64s.                       *)

NaN == << >>

Abs(i) == IF i < 0 THEN -i ELSE i

Min(S) == CHOOSE m \in S : \A o \in S : m <= o

RECURSIVE GCD(_, _)
GCD(a, b) == IF b = 0 THEN a ELSE GCD(b, a % b)

Rat(n, d) ==
    LET s == IF d < 0 THEN -1 ELSE 1
        g == GCD(Abs(n), Abs(d))
    IN  <<(s * n) \div g, (s * d) \div g>>

RZero == <<0, 1>>
RInt(i) == <<i, 1>>
RAdd(a, b) == Rat(a[1] * b[2] + b[1] * a[2], a[2] * b[2])
RSub(a, b) == Rat(a[1] * b[2] - b[1] * a[2], a[2] * b[2])
RMul(a, b) == Rat(a[1] * b[1], a[2] * b[2])
RDiv(a, b) == Rat(a[1] * b[2], a[2] * b[1])

RECURSIVE Pow(_, _)
Pow(b, e) == IF e = 0 THEN 1 ELSE b * Pow(b, e - 1)

RECURSIVE SumInt(_)
SumInt(s) == IF Len(s) = 0 THEN 0 ELSE Head(s) + SumInt(Tail(s))

RECURSIVE RSum(_)
RSum(s) == IF Len(s) = 0 THEN RZero ELSE RAdd(Head(s), RSum(Tail(s)))

RDot(u, v) == RSum([j \in 1..Len(u) |-> RMul(u[j], v[j])])

\* The sequence s itself, with every element computed once.
AsTuple(s) == s \o << >>

\* Gauss-Jordan elimination of the first ncols columns of M, from column col
\* and row row on; piv collects the pivot columns.
RECURSIVE GaussJordan(_, _, _, _, _)
GaussJordan(M, col, row, ncols, piv) ==
    IF col > ncols \/ row > Len(M) THEN [m |-> M, piv |-> piv]
    ELSE LET cand == {r \in row..Len(M) : M[r][col] # RZero}
         IN  IF cand = {} THEN GaussJordan(M, col + 1, row, ncols, piv)
             ELSE LET p == Min(cand)
                      pr == AsTuple([j \in 1..Len(M[p]) |->
                                RDiv(M[p][j], M[p][col])])
                      \* rows p and row change places, the pivot row is scaled
                      \* and taken out of every other row
                      old(r) == IF r = p THEN M[row] ELSE M[r]
                      red == AsTuple([r \in 1..Len(M) |->
                                IF r = row THEN pr
                                ELSE AsTuple([j \in 1..Len(pr) |->
                                        RSub(old(r)[j],
                                             RMul(old(r)[col], pr[j]))])])
                  IN  GaussJordan(red, col + 1, row + 1, ncols,
                                  Append(piv, col))

\* [A | b] for a square integer matrix A and an integer vector b.
Augment(A, b) ==
    AsTuple([r \in 1..Len(A) |-> AsTuple([j \in 1..Len(A) + 1 |->
        IF j <= Len(A) THEN RInt(A[r][j]) ELSE RInt(b[r])])])

IndexOf(s, v) == CHOOSE k \in 1..Len(s) : s[k] = v

InSeq(s, v) == \E k \in 1..Len(s) : s[k] = v

\* The kernel vector of the free column f of an eliminated system gj with p
\* unknowns.
KernelVector(gj, p, f) ==
    AsTuple([j \in 1..p |->
        IF j = f THEN RInt(1)
        ELSE IF InSeq(gj.piv, j)
             THEN RSub(RZero, gj.m[IndexOf(gj.piv, j)][f])
             ELSE RZero])

\* w0 less its component in the kernel spanned by the rows of K.
ProjectOut(w0, K) ==
    LET q == Len(K)
        KK == AsTuple([i \in 1..q |-> AsTuple([j \in 1..q + 1 |->
                 IF j <= q THEN RDot(K[i], K[j]) ELSE RDot(K[i], w0)])])
        t == GaussJordan(KK, 1, 1, q, << >>).m
    IN  AsTuple([j \in 1..Len(w0) |->
            RSub(w0[j], RSum([i \in 1..q |-> RMul(t[i][q + 1], K[i][j])]))])

\* The least-squares solution of least Euclidean norm: the solution of the
\* consistent system G w = b (G symmetric) that is orthogonal to G's kernel.
MinNormFrom(gj, p) ==
    LET fs == SelectSeq([j \in 1..p |-> j], LAMBDA j : ~InSeq(gj.piv, j))
        w0 == AsTuple([j \in 1..p |->
                IF InSeq(gj.piv, j)
                THEN gj.m[IndexOf(gj.piv, j)][p + 1] ELSE RZero])
    IN  IF Len(fs) = 0 THEN w0
        ELSE ProjectOut(w0, AsTuple([i \in 1..Len(fs) |->
                                        KernelVector(gj, p, fs[i])]))

MinNormSolve(G, b) ==
    MinNormFrom(GaussJordan(Augment(G, b), 1, 1, Len(G), << >>), Len(G))

-----------------------------------------------------------------------------
(* preprocess_data                                                         *)

\* Variant: dropna(subset=[first column, last column]).
dropna_first_last(rows) ==
    SelectSeq(rows, LAMBDA r : r[1] # NaN /\ r[Len(r)] # NaN)

\* DataFrame.dropna(): the rows without a missing value in any column.
dropna(rows) == SelectSeq(rows, LAMBDA r : \A j \in 1..Len(r) : r[j] # NaN)

preprocess_data(df) ==
    LET kept == dropna(df.rows)
    IN  [x_axis |-> [k \in 1..Len(kept) |-> kept[k][1][1]],
         y_axis |-> [k \in 1..Len(kept) |-> kept[k][Len(kept[k])][1]],
         column_names |-> df.columns]

\* np.concatenate((x_axis, y_axis), axis=1)
concatenate(x_axis, y_axis) == [k \in 1..Len(x_axis) |-> <<x_axis[k], y_axis[k]>>]

-----------------------------------------------------------------------------
(* train_test_split(data[:, :-1], data[:, -1], test_size=0.2,              *)
(*                  random_state=0)                                        *)

test_size == <<1, 5>>

Ceil(r) == -((-r[1]) \div r[2])

\* RandomState(0).permutation(n) for n = 0..12 (MT19937 seeded with 0, the
\* Fisher-Yates shuffle of numpy's legacy generator); entry n + 1 is for n.
permutation0 ==
    << << >>,
       <<0>>,
       <<1, 0>>,
       <<2, 1, 0>>,
       <<2, 3, 1, 0>>,
       <<2, 0, 1, 3, 4>>,
       <<5, 2, 1, 3, 0, 4>>,
       <<6, 2, 1, 3, 0, 5, 4>>,
       <<6, 2, 1, 7, 3, 0, 5, 4>>,
       <<7, 2, 1, 4, 8, 6, 3, 0, 5>>,
       <<2, 8, 4, 9, 1, 6, 7, 3, 0, 5>>,
       <<4, 9, 2, 10, 6, 1, 7, 8, 3, 0, 5>>,
       <<6, 11, 4, 10, 2, 8, 1, 7, 9, 3, 0, 5>> >>

\* Variant: the test count is truncated instead of rounded up.
n_test_of_truncated(n) == (test_size[1] * n) \div test_size[2]

\* _validate_shuffle_split: n_test = ceil(test_size * n), n_train = n - n_test
\* (ceil(0.2 * n) in float64 equals the exact ceiling for every n here).
n_test_of(n) == Ceil(RMul(test_size, RInt(n)))

n_train_of(n) == n - n_test_of(n)

\* ShuffleSplit: the first n_test entries of the permutation are the test
\* rows, the next n_train the training rows (0-based row numbers).
test_indices(n) == SubSeq(permutation0[n + 1], 1, n_test_of(n))

\* Variant: the training slice starts one entry early.
train_indices_overlapping(n) ==
    SubSeq(permutation0[n + 1], n_test_of(n), n_test_of(n) + n_train_of(n))

train_indices(n) ==
    SubSeq(permutation0[n + 1], n_test_of(n) + 1, n_test_of(n) + n_train_of(n))

\* ok = FALSE: ValueError, "the resulting train set will be empty".
train_test_split(d) ==
    LET n == Len(d)
        train == train_indices(n)
        test == test_indices(n)
    IN  IF n_train_of(n) = 0
        THEN [ok |-> FALSE, train |-> << >>, test |-> << >>,
              x_train |-> << >>, y_train |-> << >>, x_test |-> << >>]
        ELSE [ok |-> TRUE, train |-> train, test |-> test,
              x_train |-> [k \in 1..Len(train) |-> d[train[k] + 1][1]],
              y_train |-> [k \in 1..Len(train) |-> d[train[k] + 1][2]],
              x_test |-> [k \in 1..Len(test) |-> d[test[k] + 1][1]]]

-----------------------------------------------------------------------------
(* Feature expansion                                                       *)

\* Lines 136-140: np.c_[ones, x], then one more column x ** i for each i in
\* range(2, degree + 1).
closed_form_features(x, degree) ==
    [k \in 1..Len(x) |->
        <<1, x[k]>> \o [j \in 1..(IF degree >= 2 THEN degree - 1 ELSE 0) |->
                            Pow(x[k], j + 1)]]

\* Variant: PolynomialFeatures(degree, include_bias=False).
polynomial_features_without_bias(x, degree) ==
    [k \in 1..Len(x) |-> [j \in 1..degree |-> Pow(x[k], j)]]

\* PolynomialFeatures(degree) keeps its default include_bias=True: the
\* columns are x^0, x^1, ..., x^degree.
polynomial_features(x, degree) ==
    [k \in 1..Len(x) |-> [j \in 1..degree + 1 |-> Pow(x[k], j - 1)]]

\* PolynomialFeatures refuses a negative degree when it is fitted.
polynomial_features_accepts(degree) == degree >= 0

-----------------------------------------------------------------------------
(* Fitting                                                                 *)

NCols(X) == IF Len(X) = 0 THEN 0 ELSE Len(X[1])

\* X.T @ X and X.T @ y for an integer matrix X with p columns.
Gram(X, p) ==
    [i \in 1..p |-> [j \in 1..p |-> SumInt([k \in 1..Len(X) |-> X[k][i] * X[k][j]])]]

Moment(X, y, p) == [i \in 1..p |-> SumInt([k \in 1..Len(X) |-> X[k][i] * y[k]])]

\* A float64 of which the source determines nothing.
Unspecified == <<0, 0>>

HasUnspecified(c) == \E j \in 1..Len(c) : c[j] = Unspecified

\* The float64 that rounding has left near q.
Rounded(q) == <<q[1], q[2], "rounded">>

IsRounded(c) == Len(c) = 3

HasRounded(c) == \E j \in 1..Len(c) : IsRounded(c[j])

RoundedIf(b, q) == IF b THEN Rounded(q) ELSE q

\* |a| < |b|
RAbsLess(a, b) == Abs(a[1]) * b[2] < Abs(b[1]) * a[2]

RECURSIVE IsPowerOfTwo(_)
IsPowerOfTwo(n) == n = 1 \/ (n > 1 /\ n % 2 = 0 /\ IsPowerOfTwo(n \div 2))

\* 1 / a is a float64: a is a power of two or the inverse of one.
InverseIsExact(a) ==
    \/ a[2] = 1 /\ IsPowerOfTwo(Abs(a[1]))
    \/ Abs(a[1]) = 1 /\ IsPowerOfTwo(a[2])

\* np.linalg.inv factors its argument by elimination with partial pivoting
\* (LAPACK gesv) and raises LinAlgError when a pivot is exactly zero.  This
\* is the elimination of M from column c on, in exact arithmetic, as far as
\* float64 is sure to follow it:
\*   zero_pivot  a zero pivot is met and nothing was rounded before it, so
\*               it is met whatever the build
\*   rounded     a step may round: there is something to eliminate below a
\*               pivot whose inverse, by which the column is scaled, is no
\*               float64
\*   dyadic      the inverse of every pivot is a float64, so solving with
\*               the factors rounds nothing either
RECURSIVE getrf(_, _, _)
getrf(M, c, dyadic) ==
    IF c > Len(M)
    THEN [zero_pivot |-> FALSE, rounded |-> FALSE, dyadic |-> dyadic]
    ELSE LET p == CHOOSE r \in c..Len(M) :
                      /\ \A o \in c..Len(M) : ~RAbsLess(M[r][c], M[o][c])
                      /\ \A o \in c..r - 1 : RAbsLess(M[o][c], M[r][c])
             old(r) == IF r = p THEN M[c] ELSE M[r]
             red == AsTuple([r \in 1..Len(M) |->
                       IF r < c THEN M[r]
                       ELSE IF r = c THEN M[p]
                       ELSE AsTuple([j \in 1..Len(M) |->
                               RSub(old(r)[j],
                                    RMul(RDiv(old(r)[c], M[p][c]), M[p][j]))])])
         IN  IF M[p][c] = RZero
             THEN [zero_pivot |-> TRUE, rounded |-> FALSE, dyadic |-> dyadic]
             ELSE IF (\E r \in c + 1..Len(M) : old(r)[c] # RZero)
                     /\ ~InverseIsExact(M[p][c])
                  THEN [zero_pivot |-> FALSE, rounded |-> TRUE, dyadic |-> FALSE]
                  ELSE getrf(red, c + 1, dyadic /\ InverseIsExact(M[p][c]))

\* X.T @ X as np.linalg.inv receives it.
GramMatrix(X) ==
    AsTuple([i \in 1..NCols(X) |-> AsTuple([j \in 1..NCols(X) |->
        RInt(Gram(X, NCols(X))[i][j])])])

\* Lines 142-143: inv(X.T @ X) @ (X.T @ y).  singular = TRUE when X.T @ X has
\* no inverse.  The coefficients are the exact solution when the float64
\* computation rounds nothing, and float64s near it otherwise.
normal_equations(X, y) ==
    LET p == NCols(X)
        gj == GaussJordan(Augment(Gram(X, p), Moment(X, y, p)), 1, 1, p, << >>)
    IN  IF Len(gj.piv) < p
        THEN [singular |-> TRUE, coefficient |-> << >>]
        ELSE [singular |-> FALSE,
              coefficient |-> [j \in 1..p |->
                  RoundedIf(~getrf(GramMatrix(X), 1, TRUE).dyadic,
                            gj.m[j][p + 1])]]

\* np.linalg.inv(X.T @ X) for a singular X.T @ X: LinAlgError, or, when
\* rounding can hide the zero pivot, an inverse of undetermined numbers.
inv_singular(X) ==
    IF getrf(GramMatrix(X), 1, TRUE).zero_pivot
    THEN {[raises |-> TRUE, coefficient |-> << >>]}
    ELSE {[raises |-> TRUE, coefficient |-> << >>],
          [raises |-> FALSE,
           coefficient |-> [j \in 1..NCols(X) |-> Unspecified]]}

\* LinearRegression().fit(X, y): X and y are centred, the least-squares
\* problem is solved by lstsq (the solution of least norm when X is rank
\* deficient), intercept_ = mean(y) - mean(X) . coef_.  lstsq works through
\* a singular value decomposition, which rounds.
LinearRegression_fit(X, y) ==
    LET n == Len(X)
        p == NCols(X)
        colsum == [i \in 1..p |-> SumInt([k \in 1..n |-> X[k][i]])]
        ysum == SumInt(y)
        G == Gram(X, p)
        m == Moment(X, y, p)
        \* n times the centred Gram matrix and moment vector
        Gc == [i \in 1..p |-> [j \in 1..p |-> n * G[i][j] - colsum[i] * colsum[j]]]
        mc == [i \in 1..p |-> n * m[i] - colsum[i] * ysum]
        w == MinNormSolve(Gc, mc)
    IN  [coef_ |-> [j \in 1..p |-> Rounded(w[j])],
         intercept_ |-> Rounded(RDiv(RSub(RInt(ysum),
                                          RDot([i \in 1..p |-> RInt(colsum[i])], w)),
                                     RInt(n)))]

-----------------------------------------------------------------------------
(* Prediction and ordering                                                 *)

\* np.dot(x_test_polynomial, coefficient)
dot(X, c) ==
    [k \in 1..Len(X) |->
        IF HasUnspecified(c) THEN Unspecified
        ELSE RoundedIf(HasRounded(c),
                       RDot([j \in 1..Len(X[k]) |-> RInt(X[k][j])], c))]

\* model.predict(x_test_polynomial)
predict(mdl, X) ==
    [k \in 1..Len(X) |->
        RoundedIf(HasRounded(mdl.coef_) \/ IsRounded(mdl.intercept_),
                  RAdd(dot(X, mdl.coef_)[k], mdl.intercept_))]

\* Insertion of index i into the index list s, ordered by x, after every
\* entry whose x is not larger.
RECURSIVE InsertIndex(_, _, _)
InsertIndex(s, i, x) ==
    IF Len(s) = 0 THEN <<i>>
    ELSE IF x[s[Len(s)]] > x[i]
         THEN Append(InsertIndex(SubSeq(s, 1, Len(s) - 1), i, x), s[Len(s)])
         ELSE Append(s, i)

RECURSIVE ArgsortUpTo(_, _)
ArgsortUpTo(x, n) ==
    IF n = 0 THEN << >> ELSE InsertIndex(ArgsortUpTo(x, n - 1), n, x)

\* np.argsort(x): positions (1-based here) in ascending order of x.
argsort(x) == ArgsortUpTo(x, Len(x))

\* a[order]
take(a, order) == [k \in 1..Len(order) |-> a[order[k]]]

\* Variant: x_test is rebound first and the predictions are then indexed by
\* the argsort of the already sorted x_test.
sort_by_x_rebound(x_test, y_prediction) ==
    [x_test |-> take(x_test, argsort(x_test)),
     y_prediction |-> take(y_prediction, argsort(take(x_test, argsort(x_test))))]

\* Lines 111-112 and 147-148: both right-hand sides are evaluated with the
\* unsorted x_test before either name is rebound.
sort_by_x(x_test, y_prediction) ==
    [x_test |-> take(x_test, argsort(x_test)),
     y_prediction |-> take(y_prediction, argsort(x_test))]

-----------------------------------------------------------------------------
(* save_equation                                                           *)

\* coefficient != 0 (NaN != 0 is true).
NonZero(c) == IF Len(c) = 0 THEN TRUE ELSE c[1] # 0

\* Natural numbers beyond 32 bits, for the digits of a float64: limbs of four
\* decimal digits, lowest limb first, no zero limb at the top.
BigBase == 10000

RECURSIVE BigTrim(_)
BigTrim(a) ==
    IF Len(a) > 0 /\ a[Len(a)] = 0 THEN BigTrim(SubSeq(a, 1, Len(a) - 1)) ELSE a

RECURSIVE BigOf(_)
BigOf(i) == IF i = 0 THEN << >> ELSE <<i % BigBase>> \o BigOf(i \div BigBase)

RECURSIVE BigTimesCarry(_, _, _)
BigTimesCarry(a, k, carry) ==
    IF Len(a) = 0 THEN BigOf(carry)
    ELSE <<(a[1] * k + carry) % BigBase>>
         \o BigTimesCarry(Tail(a), k, (a[1] * k + carry) \div BigBase)

\* a * k for 0 < k < 2^17
BigTimes(a, k) == BigTimesCarry(a, k, 0)

\* Long division by k, 0 < k < 2^17, from limb i down: r is the remainder
\* and q the quotient of the limbs above i.
RECURSIVE BigDivFrom(_, _, _, _, _)
BigDivFrom(a, k, i, r, q) ==
    IF i = 0 THEN <<q, r>>
    ELSE BigDivFrom(a, k, i - 1, (r * BigBase + a[i]) % k,
                    <<(r * BigBase + a[i]) \div k>> \o q)

\* <<a \div k, a % k>>, the quotient not yet trimmed
BigDivMod(a, k) == BigDivFrom(a, k, Len(a), 0, << >>)

BigDiv(a, k) == BigTrim(BigDivMod(a, k)[1])

RECURSIVE BigAddCarry(_, _, _)
BigAddCarry(a, b, carry) ==
    IF Len(a) = 0 /\ Len(b) = 0 THEN BigOf(carry)
    ELSE LET t == (IF Len(a) = 0 THEN 0 ELSE a[1])
                  + (IF Len(b) = 0 THEN 0 ELSE b[1]) + carry
         IN  <<t % BigBase>>
             \o BigAddCarry(IF Len(a) = 0 THEN a ELSE Tail(a),
                            IF Len(b) = 0 THEN b ELSE Tail(b), t \div BigBase)

BigAdd(a, b) == BigAddCarry(a, b, 0)

\* a - b - borrow for a >= b + borrow
RECURSIVE BigSubBorrow(_, _, _)
BigSubBorrow(a, b, borrow) ==
    IF Len(a) = 0 THEN << >>
    ELSE LET t == a[1] - (IF Len(b) = 0 THEN 0 ELSE b[1]) - borrow
         IN  <<(t + BigBase) % BigBase>>
             \o BigSubBorrow(Tail(a), IF Len(b) = 0 THEN b ELSE Tail(b),
                             IF t < 0 THEN 1 ELSE 0)

BigSub(a, b) == BigTrim(BigSubBorrow(a, b, 0))

\* a < b
RECURSIVE BigLess(_, _)
BigLess(a, b) ==
    IF Len(a) # Len(b) THEN Len(a) < Len(b)
    ELSE IF Len(a) = 0 THEN FALSE
    ELSE IF a[Len(a)] # b[Len(b)] THEN a[Len(a)] < b[Len(b)]
    ELSE BigLess(SubSeq(a, 1, Len(a) - 1), SubSeq(b, 1, Len(b) - 1))

BigDistance(a, b) == IF BigLess(a, b) THEN BigSub(b, a) ELSE BigSub(a, b)

\* The value y, once x has been evaluated: a chain of operations on large
\* numbers is evaluated step by step instead of nested.
Then(x, y) == IF x = x THEN y ELSE y

\* Carries taken out of a sequence of limbs that have outgrown BigBase.
RECURSIVE BigCarry(_, _)
BigCarry(t, carry) ==
    IF Len(t) = 0 THEN BigOf(carry)
    ELSE <<(t[1] + carry) % BigBase>>
         \o BigCarry(Tail(t), (t[1] + carry) \div BigBase)

\* a * b, for factors of fewer than 20 limbs
BigMul(a, b) ==
    IF Len(a) = 0 \/ Len(b) = 0 THEN << >>
    ELSE BigCarry(AsTuple([i \in 1..Len(a) + Len(b) - 1 |->
             SumInt(AsTuple([j \in 1..Len(a) |->
                 IF i - j + 1 \in 1..Len(b) THEN a[j] * b[i - j + 1] ELSE 0]))]),
             0)

\* 2^e for e in 1..15 and 10^e for e in 1..3
TwoTo == <<2, 4, 8, 16, 32, 64, 128, 256, 512, 1024, 2048, 4096, 8192,
           16384, 32768>>

TenTo == <<10, 100, 1000>>

\* 2^e in limbs for e = 0..75; entry e + 1 is for e.
BigTwoTo ==
    << <<1>>,
       <<2>>,
       <<4>>,
       <<8>>,
       <<16>>,
       <<32>>,
       <<64>>,
       <<128>>,
       <<256>>,
       <<512>>,
       <<1024>>,
       <<2048>>,
       <<4096>>,
       <<8192>>,
       <<6384, 1>>,
       <<2768, 3>>,
       <<5536, 6>>,
       <<1072, 13>>,
       <<2144, 26>>,
       <<4288, 52>>,
       <<8576, 104>>,
       <<7152, 209>>,
       <<4304, 419>>,
       <<8608, 838>>,
       <<7216, 1677>>,
       <<4432, 3355>>,
       <<8864, 6710>>,
       <<7728, 3421, 1>>,
       <<5456, 6843, 2>>,
       <<912, 3687, 5>>,
       <<1824, 7374, 10>>,
       <<3648, 4748, 21>>,
       <<7296, 9496, 42>>,
       <<4592, 8993, 85>>,
       <<9184, 7986, 171>>,
       <<8368, 5973, 343>>,
       <<6736, 1947, 687>>,
       <<3472, 3895, 1374>>,
       <<6944, 7790, 2748>>,
       <<3888, 5581, 5497>>,
       <<7776, 1162, 995, 1>>,
       <<5552, 2325, 1990, 2>>,
       <<1104, 4651, 3980, 4>>,
       <<2208, 9302, 7960, 8>>,
       <<4416, 8604, 5921, 17>>,
       <<8832, 7208, 1843, 35>>,
       <<7664, 4417, 3687, 70>>,
       <<5328, 8835, 7374, 140>>,
       <<656, 7671, 4749, 281>>,
       <<1312, 5342, 9499, 562>>,
       <<2624, 684, 8999, 1125>>,
       <<5248, 1368, 7998, 2251>>,
       <<496, 2737, 5996, 4503>>,
       <<992, 5474, 1992, 9007>>,
       <<1984, 948, 3985, 8014, 1>>,
       <<3968, 1896, 7970, 6028, 3>>,
       <<7936, 3792, 5940, 2057, 7>>,
       <<5872, 7585, 1880, 4115, 14>>,
       <<1744, 5171, 3761, 8230, 28>>,
       <<3488, 342, 7523, 6460, 57>>,
       <<6976, 684, 5046, 2921, 115>>,
       <<3952, 1369, 92, 5843, 230>>,
       <<7904, 2738, 184, 1686, 461>>,
       <<5808, 5477, 368, 3372, 922>>,
       <<1616, 955, 737, 6744, 1844>>,
       <<3232, 1910, 1474, 3488, 3689>>,
       <<6464, 3820, 2948, 6976, 7378>>,
       <<2928, 7641, 5896, 3952, 4757, 1>>,
       <<5856, 5282, 1793, 7905, 9514, 2>>,
       <<1712, 565, 3587, 5810, 9029, 5>>,
       <<3424, 1130, 7174, 1620, 8059, 11>>,
       <<6848, 2260, 4348, 3241, 6118, 23>>,
       <<3696, 4521, 8696, 6482, 2236, 47>>,
       <<7392, 9042, 7392, 2965, 4473, 94>>,
       <<4784, 8085, 4785, 5931, 8946, 188>>,
       <<9568, 6170, 9571, 1862, 7893, 377>> >>

\* a \div 2^e for e <= 75, at most fifteen bits at a time
BigDivBits(a, e) == IF e <= 0 THEN a ELSE BigDiv(a, TwoTo[IF e > 15 THEN 15 ELSE e])

BigDivTwoTo(a, e) ==
    LET x1 == BigDivBits(a, e)
        x2 == BigDivBits(x1, e - 15)
        x3 == BigDivBits(x2, e - 30)
        x4 == BigDivBits(x3, e - 45)
    IN  Then(x1, Then(x2, Then(x3, Then(x4, BigDivBits(x4, e - 60)))))

\* a * 10^e and a \div 10^e: whole limbs are shifted in or out, the rest is
\* one multiplication or division
BigTimesTenTo(a, e) ==
    LET shifted == IF Len(a) = 0 THEN a ELSE [i \in 1..e \div 4 |-> 0] \o a
    IN  IF e % 4 = 0 THEN shifted ELSE BigTimes(shifted, TenTo[e % 4])

BigDivTenTo(a, e) ==
    LET shifted == SubSeq(a, e \div 4 + 1, Len(a))
    IN  IF e % 4 = 0 THEN shifted ELSE BigDiv(shifted, TenTo[e % 4])

\* The decimal digits of a, highest first (none for zero).
BigDigits(a) ==
    LET top == IF Len(a) = 0 THEN 0 ELSE a[Len(a)]
        lead == IF top >= 1000 THEN 0 ELSE IF top >= 100 THEN 1
                ELSE IF top >= 10 THEN 2 ELSE 3
        all == [i \in 1..4 * Len(a) |->
                   (a[Len(a) - (i - 1) \div 4] \div Pow(10, 3 - ((i - 1) % 4))) % 10]
    IN  SubSeq(all, lead + 1, Len(all))

\* floor(log_b(a / d)) for integers a, d > 0.
RECURSIVE FloorLog(_, _, _)
FloorLog(b, a, d) ==
    IF a < d THEN FloorLog(b, a * b, d) - 1
    ELSE IF a \div b >= d THEN FloorLog(b, a \div b, d) + 1
    ELSE 0

\* The float64 nearest to a/d (a, d > 0, ties to the even mantissa): the
\* value is m / 2^s with 2^52 <= m < 2^53.
float64(a, d) ==
    LET s == 52 - FloorLog(2, a, d)
        qr == BigDivMod(BigMul(BigOf(a), BigTwoTo[s + 1]), d)
        q == BigTrim(qr[1])
        up == 2 * qr[2] > d \/ (2 * qr[2] = d /\ q[1] % 2 = 1)
        m == IF up THEN BigAdd(q, <<1>>) ELSE q
    IN  Then(q, IF m = BigTwoTo[54]
                THEN [m |-> BigTwoTo[53], s |-> s - 1]
                ELSE [m |-> m, s |-> s])

\* The decimal c * 10^(e + 1 - k) beside the float f = num / den (both
\* scaled by 10^(k - 1 - e)), back = c * den: how far from f it lies, in
\* units of 1 / den, and whether reading it back gives f again: it lies
\* within half a unit in the last place of f, a tie going to the even
\* mantissa.
decimal_candidate(f, c, back, num, scale) ==
    LET distance == BigDistance(back, num)
        \* below the power of two 2^52 the floats are twice as dense
        gap == IF f.m = BigTwoTo[53] /\ BigLess(back, num) THEN 4 ELSE 2
        twice == BigTimes(distance, gap)
    IN  [c |-> c,
         distance |-> distance,
         round_trips |-> IF twice = scale THEN f.m[1] % 2 = 0
                         ELSE BigLess(twice, scale)]

\* Of the decimal below f and the one above it, the one that reads back as
\* f; when both do, the nearer one, and the one with the even last digit
\* when they are equally near.
nearer_decimal(below, above) ==
    IF below.round_trips /\ above.round_trips
    THEN IF below.distance = above.distance
         THEN IF below.c[1] % 2 = 0 THEN below ELSE above
         ELSE IF BigLess(below.distance, above.distance) THEN below
              ELSE above
    ELSE IF above.round_trips THEN above
    ELSE below

\* The decimal of k significant digits for the float f, whose first digit
\* has weight 10^e.
nearest_decimal(f, e, k) ==
    LET j == k - 1 - e
        up == IF j > 0 THEN j ELSE 0
        down == IF j < 0 THEN -j ELSE 0
        num == BigTimesTenTo(f.m, up)
        scale == BigTimesTenTo(<<1>>, up)
        den == BigTimesTenTo(BigTwoTo[f.s + 1], down)
        floor == BigDivTenTo(BigDivTwoTo(num, f.s), down)
        around == <<floor, BigAdd(floor, <<1>>)>>
        candidates == AsTuple([i \in 1..2 |->
                         decimal_candidate(f, around[i],
                                           BigMul(around[i], den),
                                           num, scale)])
    IN  nearer_decimal(candidates[1], candidates[2])

\* The least k in lo..hi whose k-digit decimal reads back as f, when the one
\* of hi digits does: a decimal of more digits lies at least as near to f.
RECURSIVE least_digits(_, _, _, _)
least_digits(f, e, lo, hi) ==
    IF lo >= hi THEN hi
    ELSE IF nearest_decimal(f, e, (lo + hi) \div 2).round_trips
         THEN least_digits(f, e, lo, (lo + hi) \div 2)
         ELSE least_digits(f, e, (lo + hi) \div 2 + 1, hi)

\* The shortest decimal that reads back as f; 17 digits always do.
shortest_digits(f, e) ==
    LET k == least_digits(f, e, 1, 17)
        ds == BigDigits(nearest_decimal(f, e, k).c)
    IN  Then(f, Then(k, Then(ds,
            [digits |-> ds, decpt |-> e + 1 + Len(ds) - k])))

RECURSIVE StripZeros(_)
StripZeros(ds) ==
    IF Len(ds) > 1 /\ ds[Len(ds)] = 0
    THEN StripZeros(SubSeq(ds, 1, Len(ds) - 1)) ELSE ds

RECURSIVE Text(_)
Text(ds) == IF Len(ds) = 0 THEN "" ELSE ToString(ds[1]) \o Text(Tail(ds))

RECURSIVE Zeros(_)
Zeros(n) == IF n <= 0 THEN "" ELSE "0" \o Zeros(n - 1)

\* float_repr_style 'short': the digits ds of 0.ds * 10^decpt, written with
\* an exponent when decpt is below -3 or above 16, and otherwise in place
\* with at least one digit after the point.
format_float_short(ds, decpt) ==
    LET n == Len(ds)
        e == decpt - 1
    IN  IF decpt > 16 \/ decpt < -3
        THEN ToString(ds[1])
             \o (IF n > 1 THEN "." \o Text(Tail(ds)) ELSE "")
             \o "e" \o (IF e < 0 THEN "-" ELSE "+")
             \o (IF Abs(e) < 10 THEN "0" ELSE "") \o ToString(Abs(e))
        ELSE IF decpt <= 0 THEN "0." \o Zeros(-decpt) \o Text(ds)
        ELSE IF decpt >= n THEN Text(ds) \o Zeros(decpt - n) \o ".0"
        ELSE Text(SubSeq(ds, 1, decpt)) \o "." \o Text(SubSeq(ds, decpt + 1, n))

\* repr of the float64 nearest to a/d, a, d > 0.
float_repr(a, d) ==
    LET r == shortest_digits(float64(a, d), FloorLog(10, a, d))
    IN  Then(r, format_float_short(StripZeros(r.digits), r.decpt))

\* str() of the scalar inside the f-string: an int prints its digits, a
\* float64 prints the shortest decimal that reads back as the same float64.
str(c) ==
    IF Len(c) = 0 THEN "nan"
    ELSE IF Len(c) = 1 THEN ToString(c[1])
    ELSE IF c[1] = 0 THEN "0.0"
    ELSE (IF c[1] < 0 THEN "-" ELSE "") \o float_repr(Abs(c[1]), c[2])

\* Variant: the loop without the test for zero.
RECURSIVE collect_terms_unfiltered(_, _)
collect_terms_unfiltered(coefficients, i) ==
    IF i >= Len(coefficients) THEN << >>
    ELSE <<str(coefficients[i + 1]) \o " * x^" \o ToString(i)>>
         \o collect_terms_unfiltered(coefficients, i + 1)

\* The loop of lines 46-50 from index i (0-based) on.
RECURSIVE collect_terms(_, _)
collect_terms(coefficients, i) ==
    IF i >= Len(coefficients) THEN << >>
    ELSE (IF NonZero(coefficients[i + 1])
          THEN <<str(coefficients[i + 1]) \o " * x^" \o ToString(i)>>
          ELSE << >>) \o collect_terms(coefficients, i + 1)

\* sep.join(terms)
RECURSIVE join(_, _)
join(sep, terms) ==
    IF Len(terms) = 0 THEN ""
    ELSE IF Len(terms) = 1 THEN terms[1]
    ELSE terms[1] \o sep \o join(sep, Tail(terms))

\* The text written to equation.txt; not determined when a coefficient is
\* not.
save_equation(coefficients) ==
    IF HasUnspecified(coefficients) \/ HasRounded(coefficients)
    THEN Unspecified
    ELSE "y = " \o join(" + ", collect_terms(coefficients, 0))

-----------------------------------------------------------------------------
(* plot                                                                    *)

\* Variant: every degree but 1 counts as polynomial.
is_polynomial_unless_one(degree) == degree # 1

is_polynomial(degree) == degree > 1

plot_title(degree) ==
    IF is_polynomial(degree)
    THEN "Polynomial Regression (degree " \o ToString(degree) \o ")"
    ELSE "Linear Regression"

-----------------------------------------------------------------------------
(* regression(): the steps of one run                                      *)

None == << >>

IsClosed(algorithm) == algorithm = "closed"

IsGradient(algorithm) == algorithm = "gradient"

InvalidAlgorithmMessage ==
    "Invalid algorithm type. Please choose 'closed' or 'gradient'."

Raise(type, at) == <<[type |-> type, at |-> at]>>

UsageMessage ==
    "Try again! Enter: python [script.py]"
    \o " [input_file_path] [type_of_algorithm(closed or gradient)] [degree_of_polynomial]"

\* Characters of the degree word, as Unicode code points.
PlusSign == 43

MinusSign == 45

Underscore == 95

DigitZero == 48

\* The white space int() drops around the number: the ASCII characters of
\* Py_ISSPACE (tab, line feed, vertical tab, form feed, carriage return,
\* space), and beyond ASCII the characters of Py_UNICODE_ISSPACE.
IsSpace(ch) ==
    \/ ch \in {9, 10, 11, 12, 13, 32}
    \/ ch \in {133, 160, 5760, 8232, 8233, 8239, 8287, 12288}
    \/ ch \in 8192..8202

\* The digit zero of every run of ten decimal digits (Unicode 14.0, general
\* category Nd); int() reads each such digit as its ASCII counterpart.
DecimalZeros ==
    {48, 1632, 1776, 1984, 2406, 2534, 2662, 2790, 2918, 3046, 3174, 3302,
     3430, 3558, 3664, 3792, 3872, 4160, 4240, 6112, 6160, 6470, 6608, 6784,
     6800, 6992, 7088, 7232, 7248, 42528, 43216, 43264, 43472, 43504, 43600,
     44016, 65296, 66720, 68912, 69734, 69872, 69942, 70096, 70384, 70736,
     70864, 71248, 71360, 71472, 71904, 72016, 72784, 73040, 73120, 92768,
     92864, 93008, 120782, 120792, 120802, 120812, 120822, 123200, 123632,
     125264, 130032}

IsDigit(ch) == \E z \in DecimalZeros : ch \in z..z + 9

DigitValue(ch) == ch - (CHOOSE z \in DecimalZeros : ch \in z..z + 9)

RECURSIVE strip(_)
strip(text) ==
    IF Len(text) > 0 /\ IsSpace(text[1]) THEN strip(Tail(text))
    ELSE IF Len(text) > 0 /\ IsSpace(text[Len(text)])
         THEN strip(SubSeq(text, 1, Len(text) - 1))
         ELSE text

\* The number written by the digits of body, underscores passed over.
RECURSIVE DigitsValue(_, _)
DigitsValue(body, n) ==
    IF n = 0 THEN 0
    ELSE IF body[n] = Underscore THEN DigitsValue(body, n - 1)
    ELSE 10 * DigitsValue(body, n - 1) + DigitValue(body[n])

\* int(text) for a str: white space around the number is dropped; the
\* number is an optional sign and decimal digits, with single underscores
\* allowed between digits.  ok = FALSE: ValueError, "invalid literal for
\* int()".
int(text) ==
    LET t == strip(text)
        signed == Len(t) > 0 /\ t[1] \in {PlusSign, MinusSign}
        body == IF signed THEN Tail(t) ELSE t
        ok == /\ Len(body) > 0
              /\ \A i \in 1..Len(body) :
                    \/ IsDigit(body[i])
                    \/ /\ body[i] = Underscore
                       /\ i > 1 /\ i < Len(body)
                       /\ IsDigit(body[i - 1]) /\ IsDigit(body[i + 1])
    IN  IF ~ok THEN [ok |-> FALSE, value |-> 0]
        ELSE [ok |-> TRUE,
              value |-> (IF signed /\ t[1] = MinusSign THEN -1 ELSE 1)
                            * DigitsValue(body, Len(body))]

\* Lines 182-185: the wrong number of words on the command line.
Usage ==
    /\ pc = "argv"
    /\ Len(argv) # 4
    /\ stdout' = Append(stdout, UsageMessage)
    /\ error' = Raise("SystemExit", "sys.exit")
    /\ pc' = "exited"
    /\ UNCHANGED <<argv, data_frame, ALGORITHM_TYPE, DEGREE_OF_POLYNOMIAL, data,
                   split, design, model, coefficient, prediction, equation,
                   figure>>

\* Lines 187-189: the names are bound in turn; int() raises after
\* ALGORITHM_TYPE is bound.
ParseArguments ==
    /\ pc = "argv"
    /\ Len(argv) = 4
    /\ ALGORITHM_TYPE' = <<argv[3]>>
    /\ IF int(argv[4]).ok
       THEN /\ DEGREE_OF_POLYNOMIAL' = <<int(argv[4]).value>>
            /\ pc' = "read"
            /\ UNCHANGED error
       ELSE /\ error' = Raise("ValueError", "int")
            /\ pc' = "failed"
            /\ UNCHANGED DEGREE_OF_POLYNOMIAL
    /\ UNCHANGED <<argv, data_frame, data, split, design, model, coefficient,
                   prediction, equation, figure, stdout>>

\* Lines 163-165: read_csv, preprocess_data, np.concatenate.
Load ==
    /\ pc = "read"
    /\ LET r == preprocess_data(data_frame)
       IN  data' = <<concatenate(r.x_axis, r.y_axis)>>
    /\ pc' = "dispatch"
    /\ UNCHANGED <<argv, data_frame, ALGORITHM_TYPE, DEGREE_OF_POLYNOMIAL, split,
                   design, model, coefficient, prediction, equation, figure,
                   stdout, error>>

\* Lines 99-100 and 133-134: the first statement of either fitter.
Split ==
    /\ pc = "dispatch"
    /\ IsClosed(ALGORITHM_TYPE[1]) \/ IsGradient(ALGORITHM_TYPE[1])
    /\ LET r == train_test_split(data[1])
       IN  IF r.ok
           THEN /\ split' = <<[train |-> r.train, test |-> r.test,
                               x_train |-> r.x_train, y_train |-> r.y_train,
                               x_test |-> r.x_test]>>
                /\ pc' = "expand"
                /\ UNCHANGED error
           ELSE /\ error' = Raise("ValueError", "train_test_split")
                /\ pc' = "failed"
                /\ UNCHANGED split
    /\ UNCHANGED <<argv, data_frame, ALGORITHM_TYPE, DEGREE_OF_POLYNOMIAL, data,
                   design, model, coefficient, prediction, equation, figure,
                   stdout>>

\* Lines 136-140.
ExpandClosed ==
    /\ pc = "expand"
    /\ IsClosed(ALGORITHM_TYPE[1])
    /\ design' = <<[train |-> closed_form_features(split[1].x_train,
                                                   DEGREE_OF_POLYNOMIAL[1]),
                    test |-> closed_form_features(split[1].x_test,
                                                  DEGREE_OF_POLYNOMIAL[1])]>>
    /\ pc' = "fit"
    /\ UNCHANGED <<argv, data_frame, ALGORITHM_TYPE, DEGREE_OF_POLYNOMIAL, data,
                   split, model, coefficient, prediction, equation, figure,
                   stdout, error>>

\* Lines 102-104.
ExpandGradient ==
    /\ pc = "expand"
    /\ IsGradient(ALGORITHM_TYPE[1])
    /\ IF polynomial_features_accepts(DEGREE_OF_POLYNOMIAL[1])
       THEN /\ design' = <<[train |-> polynomial_features(split[1].x_train,
                                                          DEGREE_OF_POLYNOMIAL[1]),
                            test |-> polynomial_features(split[1].x_test,
                                                         DEGREE_OF_POLYNOMIAL[1])]>>
            /\ pc' = "fit"
            /\ UNCHANGED error
       ELSE /\ error' = Raise("ValueError", "PolynomialFeatures.fit_transform")
            /\ pc' = "failed"
            /\ UNCHANGED design
    /\ UNCHANGED <<argv, data_frame, ALGORITHM_TYPE, DEGREE_OF_POLYNOMIAL, data,
                   split, model, coefficient, prediction, equation, figure,
                   stdout>>

\* Lines 142-143.
FitClosed ==
    /\ pc = "fit"
    /\ IsClosed(ALGORITHM_TYPE[1])
    /\ LET r == normal_equations(design[1].train, split[1].y_train)
       IN  IF r.singular
           THEN \E o \in inv_singular(design[1].train) :
                   IF o.raises
                   THEN /\ error' = Raise("LinAlgError", "np.linalg.inv")
                        /\ pc' = "failed"
                        /\ UNCHANGED coefficient
                   ELSE /\ coefficient' = <<o.coefficient>>
                        /\ pc' = "predict"
                        /\ UNCHANGED error
           ELSE /\ coefficient' = <<r.coefficient>>
                /\ pc' = "predict"
                /\ UNCHANGED error
    /\ UNCHANGED <<argv, data_frame, ALGORITHM_TYPE, DEGREE_OF_POLYNOMIAL, data,
                   split, design, model, prediction, equation, figure, stdout>>

\* Lines 106-107.
FitGradient ==
    /\ pc = "fit"
    /\ IsGradient(ALGORITHM_TYPE[1])
    /\ model' = <<LinearRegression_fit(design[1].train, split[1].y_train)>>
    /\ pc' = "predict"
    /\ UNCHANGED <<argv, data_frame, ALGORITHM_TYPE, DEGREE_OF_POLYNOMIAL, data,
                   split, design, coefficient, prediction, equation, figure,
                   stdout, error>>

\* Lines 145-150.
PredictSortClosed ==
    /\ pc = "predict"
    /\ IsClosed(ALGORITHM_TYPE[1])
    /\ prediction' = <<sort_by_x(split[1].x_test,
                                 dot(design[1].test, coefficient[1]))>>
    /\ pc' = "save"
    /\ UNCHANGED <<argv, data_frame, ALGORITHM_TYPE, DEGREE_OF_POLYNOMIAL, data,
                   split, design, model, coefficient, equation, figure,
                   stdout, error>>

\* Lines 109-114.
PredictSortGradient ==
    /\ pc = "predict"
    /\ IsGradient(ALGORITHM_TYPE[1])
    /\ prediction' = <<sort_by_x(split[1].x_test,
                                 predict(model[1], design[1].test))>>
    /\ pc' = "merge"
    /\ UNCHANGED <<argv, data_frame, ALGORITHM_TYPE, DEGREE_OF_POLYNOMIAL, data,
                   split, design, model, coefficient, equation, figure,
                   stdout, error>>

\* Lines 174-175: coefficients is model.coef_ itself, so the addition also
\* changes model.coef_.
merge_intercept(mdl) ==
    [mdl.coef_ EXCEPT ![1] =
        RoundedIf(IsRounded(mdl.coef_[1]) \/ IsRounded(mdl.intercept_),
                  RAdd(mdl.coef_[1], mdl.intercept_))]

MergeIntercept ==
    /\ pc = "merge"
    /\ coefficient' = <<merge_intercept(model[1])>>
    /\ model' = <<[model[1] EXCEPT !.coef_ = merge_intercept(model[1])]>>
    /\ pc' = "save"
    /\ UNCHANGED <<argv, data_frame, ALGORITHM_TYPE, DEGREE_OF_POLYNOMIAL, data,
                   split, design, prediction, equation, figure, stdout, error>>

\* Lines 170 and 176.
SaveEquation ==
    /\ pc = "save"
    /\ equation' = <<save_equation(coefficient[1])>>
    /\ pc' = "plot"
    /\ UNCHANGED <<argv, data_frame, ALGORITHM_TYPE, DEGREE_OF_POLYNOMIAL, data,
                   split, design, model, coefficient, prediction, figure,
                   stdout, error>>

\* Lines 171 and 177.
Plot ==
    /\ pc = "plot"
    /\ figure' = <<[title |-> plot_title(DEGREE_OF_POLYNOMIAL[1]),
                    xlabel |-> data_frame.columns[1],
                    ylabel |-> data_frame.columns[Len(data_frame.columns)]]>>
    /\ pc' = "done"
    /\ UNCHANGED <<argv, data_frame, ALGORITHM_TYPE, DEGREE_OF_POLYNOMIAL, data,
                   split, design, model, coefficient, prediction, equation,
                   stdout, error>>

\* Lines 178-179.
InvalidAlgorithm ==
    /\ pc = "dispatch"
    /\ ~IsClosed(ALGORITHM_TYPE[1])
    /\ ~IsGradient(ALGORITHM_TYPE[1])
    /\ stdout' = Append(stdout, InvalidAlgorithmMessage)
    /\ pc' = "done"
    /\ UNCHANGED <<argv, data_frame, ALGORITHM_TYPE, DEGREE_OF_POLYNOMIAL, data,
                   split, design, model, coefficient, prediction, equation,
                   figure, error>>

Next ==
    \/ Usage
    \/ ParseArguments
    \/ Load
    \/ Split
    \/ ExpandClosed
    \/ ExpandGradient
    \/ FitClosed
    \/ FitGradient
    \/ PredictSortClosed
    \/ PredictSortGradient
    \/ MergeIntercept
    \/ SaveEquation
    \/ Plot
    \/ InvalidAlgorithm

-----------------------------------------------------------------------------
(* Inputs                                                                  *)

\* Sequences over S of length at most n.
Tables(S, n) == UNION {[1..k -> S] : k \in 0..n}

Algorithms == {"closed", "gradient", "newton"}

\* Lines of a two-column CSV file.
SampleRows ==
    {<<<<0>>, <<1>>>>, <<<<1>>, <<3>>>>, <<<<2>>, <<4>>>>, <<<<1>>, <<0>>>>,
     <<NaN, <<5>>>>, <<<<3>>, NaN>>}

\* The decimal numeral of k.
RECURSIVE numeral(_)
numeral(k) ==
    IF k < 0 THEN <<MinusSign>> \o numeral(-k)
    ELSE IF k < 10 THEN <<DigitZero + k>>
    ELSE numeral(k \div 10) \o <<DigitZero + (k % 10)>>

\* Words that are no whole number: "abc" and "1.5".
NoNumerals == {<<97, 98, 99>>, <<49, 46, 53>>}

\* Numerals with characters beyond ASCII digits: a form feed before "1", and
\* a no-break space before ARABIC-INDIC DIGIT ONE.
ForeignNumerals == {<<12, 49>>, <<160, 1633>>}

Script == "miw_s24611_task03.py"

InputFilePath == "data.csv"

\* Command lines with a degree from texts, and some that are too short or
\* too long.
CommandLines(texts) ==
    {<<Script, InputFilePath, a, t>> : a \in Algorithms, t \in texts}
        \cup {<<Script>>, <<Script, InputFilePath, "closed">>,
               <<Script, InputFilePath, "closed", numeral(1), numeral(2)>>}

Fresh ==
    /\ pc = "argv"
    /\ ALGORITHM_TYPE = None
    /\ DEGREE_OF_POLYNOMIAL = None
    /\ data = None
    /\ split = None
    /\ design = None
    /\ model = None
    /\ coefficient = None
    /\ prediction = None
    /\ equation = None
    /\ figure = None
    /\ stdout = << >>
    /\ error = None

\* A run on a small table, with any selector and, for the degree, any
\* numeral from -1 on, a numeral that is not plain ASCII, or a word that is
\* no whole number.
Init ==
    /\ data_frame \in [columns : {<<"x", "y">>}, rows : Tables(SampleRows, MaxRows)]
    /\ argv \in CommandLines({numeral(k) : k \in -1..MaxDegree}
                               \cup ForeignNumerals \cup NoNumerals)
    /\ Fresh

Spec == Init /\ [][Next]_vars

\* A run at degree 1 on a longer table without missing values, long enough
\* for a test subset of several rows.
WideRows == {<<<<0>>, <<1>>>>, <<<<2>>, <<4>>>>}

InitWide ==
    /\ data_frame \in [columns : {<<"x", "y">>}, rows : Tables(WideRows, MaxWideRows)]
    /\ argv \in CommandLines({numeral(1), <<49, 46, 53>>})
    /\ Fresh

SpecWide == InitWide /\ [][Next]_vars

\* save_equation on a vector of Python ints and floats given directly.
EquationScalars ==
    {<<0>>, <<2>>, <<5>>, <<0, 1>>, <<-2, 3>>, <<7, 6>>, <<1, 100000>>,
     <<385334565, 4096>>}

InitEquation ==
    /\ data_frame = [columns |-> <<"x", "y">>, rows |-> << >>]
    /\ argv = <<Script, InputFilePath, "closed", numeral(1)>>
    /\ ALGORITHM_TYPE = <<"closed">>
    /\ DEGREE_OF_POLYNOMIAL = <<1>>
    /\ pc = "save"
    /\ coefficient \in {<<c>> : c \in Tables(EquationScalars, MaxCoefs)}
    /\ data = None
    /\ split = None
    /\ design = None
    /\ model = None
    /\ prediction = None
    /\ equation = None
    /\ figure = None
    /\ stdout = << >>
    /\ error = None

NextEquation == SaveEquation

SpecEquation == InitEquation /\ [][NextEquation]_vars

\* preprocess_data on tables of two and of three columns with missing cells.
Cells == {NaN, <<1>>, <<2>>}

InitPreprocess ==
    /\ data_frame \in
          [columns : {<<"x", "y">>}, rows : Tables(Cells \X Cells, MaxPreRows)]
          \cup [columns : {<<"x", "z", "y">>},
                rows : Tables(Cells \X Cells \X Cells, MaxPreRows)]
    /\ argv = <<Script, InputFilePath, "closed", numeral(1)>>
    /\ ALGORITHM_TYPE = <<"closed">>
    /\ DEGREE_OF_POLYNOMIAL = <<1>>
    /\ pc = "read"
    /\ data = None
    /\ split = None
    /\ design = None
    /\ model = None
    /\ coefficient = None
    /\ prediction = None
    /\ equation = None
    /\ figure = None
    /\ stdout = << >>
    /\ error = None

NextPreprocess == Load

SpecPreprocess == InitPreprocess /\ [][NextPreprocess]_vars

-----------------------------------------------------------------------------
(* Properties                                                              *)

Known == {"closed", "gradient"}

SplitError == Raise("ValueError", "train_test_split")

\* The value at x of the polynomial with coefficient vector c.
PolyAt(c, x) ==
    IF HasUnspecified(c) THEN Unspecified
    ELSE RoundedIf(HasRounded(c),
                   RSum([j \in 1..Len(c) |-> RMul(c[j], RInt(Pow(x, j - 1)))]))

\* The closed form's normal equations had a solution: the coefficients are
\* the fitted ones, whatever the rounding.
WellPosed ==
    ALGORITHM_TYPE[1] = "closed"
        => /\ design # None
           /\ ~normal_equations(design[1].train, split[1].y_train).singular

\* C1: for every degree d >= 0 and both strategies the vector handed to
\* save_equation has exactly d + 1 entries (one entry at d = 0); stated for
\* the runs whose fit is well posed.
C1_CoefficientLength ==
    (equation # None /\ DEGREE_OF_POLYNOMIAL[1] >= 0 /\ WellPosed)
        => Len(coefficient[1]) = DEGREE_OF_POLYNOMIAL[1] + 1

\* C2: for n >= 2 rows the split made by either fitter yields a training and a test subset that
\* are disjoint, together hold every row exactly once, are both non-empty,
\* and the test subset is the fifth of the rows, rounded up.
C2_SplitPartition ==
    (data # None /\ ALGORITHM_TYPE[1] \in Known /\ Len(data[1]) >= 2
       /\ pc # "dispatch")
        => /\ split # None
           /\ LET n == Len(data[1])
                  tr == split[1].train
                  te == split[1].test
              IN  /\ Len(tr) + Len(te) = n
                  /\ Len(tr) >= 1
                  /\ Len(te) >= 1
                  /\ 5 * Len(te) >= n
                  /\ 5 * (Len(te) - 1) < n
                  /\ \A i \in 0..n - 1 :
                        Cardinality({k \in 1..Len(tr) : tr[k] = i})
                          + Cardinality({k \in 1..Len(te) : te[k] = i}) = 1
                  /\ Len(split[1].x_train) = Len(tr)
                  /\ Len(split[1].y_train) = Len(tr)
                  /\ Len(split[1].x_test) = Len(te)
                  /\ \A k \in 1..Len(tr) :
                        /\ split[1].x_train[k] = data[1][tr[k] + 1][1]
                        /\ split[1].y_train[k] = data[1][tr[k] + 1][2]
                  /\ \A k \in 1..Len(te) :
                        split[1].x_test[k] = data[1][te[k] + 1][1]

C2_Witness ==
    /\ split # None
    /\ Len(split[1].test) = 3
    /\ Len(split[1].train) = 8

\* The fitted polynomial at x: the returned coefficients of the closed form,
\* the model's weights and intercept for the library fit.
FittedAt(x) ==
    IF coefficient # None THEN PolyAt(coefficient[1], x)
    ELSE RoundedIf(HasRounded(model[1].coef_) \/ IsRounded(model[1].intercept_),
                   RAdd(PolyAt(model[1].coef_, x), model[1].intercept_))

\* C3: the returned test inputs are non-decreasing, are the test subset's
\* inputs rearranged, and prediction k is the fitted value at returned
\* input k.
C3_SortedAndPaired ==
    prediction # None
        => LET xs == prediction[1].x_test
               ys == prediction[1].y_prediction
               raw == split[1].x_test
           IN  /\ Len(xs) = Len(split[1].test)
               /\ Len(ys) = Len(xs)
               /\ \A k \in 1..Len(xs) - 1 : xs[k] <= xs[k + 1]
               /\ \A k \in 1..Len(xs) :
                     Cardinality({i \in 1..Len(xs) : xs[i] = xs[k]})
                       = Cardinality({i \in 1..Len(raw) : raw[i] = xs[k]})
               /\ \A k \in 1..Len(xs) : ys[k] = FittedAt(xs[k])

C3_Witness ==
    /\ prediction # None
    /\ ALGORITHM_TYPE[1] = "gradient"
    /\ Len(split[1].x_test) = 3
    /\ split[1].x_test[1] > split[1].x_test[2]
    /\ prediction[1].y_prediction[1] # prediction[1].y_prediction[3]

\* C4: with a selector that is neither "closed" nor "gradient" nothing is
\* split, fitted, written or plotted, and the run ends as a failure: an
\* error is raised, after the diagnostic has been printed.
C4_UnknownStrategy ==
    (Len(argv) = 4 /\ argv[3] \notin Known)
        => /\ pc \in {"done", "failed"}
                => /\ pc = "failed"
                   /\ error # None
                   /\ stdout = <<InvalidAlgorithmMessage>>
           /\ split = None
           /\ design = None
           /\ model = None
           /\ coefficient = None
           /\ prediction = None
           /\ equation = None
           /\ figure = None

\* C5: with fewer than 2 cleaned rows a run of either strategy ends in the
\* error raised by the split: no coefficients, no equation, no plot.
C5_InsufficientData ==
    (data # None /\ ALGORITHM_TYPE[1] \in Known /\ Len(data[1]) < 2
       /\ pc # "dispatch")
        => /\ pc = "failed"
           /\ error = SplitError
           /\ split = None
           /\ design = None
           /\ model = None
           /\ coefficient = None
           /\ prediction = None
           /\ equation = None
           /\ figure = None

C5_Witness ==
    /\ pc = "failed"
    /\ data # None
    /\ Len(data[1]) = 1
    /\ Len(data_frame.rows) = 3
    /\ ALGORITHM_TYPE[1] = "gradient"

\* C6: a run with a negative degree fails under either strategy: no design
\* matrix, no fit, no equation, no plot.
C6_NegativeDegreeRejected ==
    (split # None /\ ALGORITHM_TYPE[1] \in Known /\ DEGREE_OF_POLYNOMIAL[1] < 0
       /\ pc # "expand")
        => /\ pc = "failed"
           /\ error # None
           /\ design = None
           /\ model = None
           /\ coefficient = None
           /\ prediction = None
           /\ equation = None
           /\ figure = None

IsZero(c) == c \in {<<0>>, RZero}

\* What Python prints for each of the scalars handed to save_equation.
Printed(c) ==
    CASE c = <<0>> -> "0"
      [] c = <<2>> -> "2"
      [] c = <<5>> -> "5"
      [] c = <<0, 1>> -> "0.0"
      [] c = <<-2, 3>> -> "-0.6666666666666666"
      [] c = <<7, 6>> -> "1.1666666666666667"
      [] c = <<1, 100000>> -> "1e-05"
      [] c = <<385334565, 4096>> -> "94075.82153320312"

\* The text for the first n coefficients, built term by term from the left.
RECURSIVE RenderedUpTo(_, _)
RenderedUpTo(c, n) ==
    IF n = 0 THEN ""
    ELSE LET before == RenderedUpTo(c, n - 1)
             term == Printed(c[n]) \o " * x^" \o ToString(n - 1)
         IN  IF IsZero(c[n]) THEN before
             ELSE IF before = "" THEN term
             ELSE before \o " + " \o term

\* C7: save_equation writes "y = " followed by the terms "c[i] * x^i" of
\* exactly the non-zero coefficients, in ascending order of i, joined by
\* " + "; [0, 2, 0, 5] gives "y = 2 * x^1 + 5 * x^3" and an all-zero vector
\* gives "y = ".
C7_EquationText ==
    equation # None
        => LET c == coefficient[1]
           IN  /\ equation[1] = "y = " \o RenderedUpTo(c, Len(c))
               /\ c = <<<<0>>, <<2>>, <<0>>, <<5>>>>
                     => equation[1] = "y = 2 * x^1 + 5 * x^3"
               /\ c = <<<<7, 6>>, <<-2, 3>>, <<0, 1>>, <<1, 100000>>>>
                     => equation[1] = "y = 1.1666666666666667 * x^0"
                                      \o " + -0.6666666666666666 * x^1"
                                      \o " + 1e-05 * x^3"
               /\ (\A i \in 1..Len(c) : IsZero(c[i])) => equation[1] = "y = "

C7_Witness ==
    /\ coefficient = <<<<<<0>>, <<2>>, <<0>>, <<5>>>>>>
    /\ equation = <<"y = 2 * x^1 + 5 * x^3">>

PolynomialTitle(d) == "Polynomial Regression (degree " \o ToString(d) \o ")"

\* C8 as stated: for every degree d >= 0 the title is "Linear Regression"
\* if and only if d = 1, and "Polynomial Regression (degree d)" otherwise;
\* stated for the runs whose fit is well posed.
C8_LinearOnlyAtOne ==
    (figure # None /\ DEGREE_OF_POLYNOMIAL[1] >= 0 /\ WellPosed)
        => /\ figure[1].title = "Linear Regression" <=> DEGREE_OF_POLYNOMIAL[1] = 1
           /\ DEGREE_OF_POLYNOMIAL[1] # 1
                 => figure[1].title = PolynomialTitle(DEGREE_OF_POLYNOMIAL[1])

\* C8 amended: for every degree d >= 0 the title is "Linear Regression" if
\* and only if d <= 1 (d = 0 included), and "Polynomial Regression
\* (degree d)" for every d >= 2.
C8_LinearUpToOne ==
    (figure # None /\ DEGREE_OF_POLYNOMIAL[1] >= 0)
        => /\ figure[1].title = "Linear Regression" <=> DEGREE_OF_POLYNOMIAL[1] <= 1
           /\ DEGREE_OF_POLYNOMIAL[1] >= 2
                 => figure[1].title = PolynomialTitle(DEGREE_OF_POLYNOMIAL[1])

C8_Witness ==
    /\ figure # None
    /\ DEGREE_OF_POLYNOMIAL[1] = 0
    /\ ALGORITHM_TYPE[1] = "gradient"

\* C9 as stated: the matrix the library fitter is trained on has no
\* intercept column: each row is [x, x^2, ..., x^d], d columns, one row per
\* training sample, and the fitted weight vector has d weights.
C9_NoInterceptColumn ==
    (design # None /\ ALGORITHM_TYPE[1] = "gradient")
        => LET X == design[1].train
               d == DEGREE_OF_POLYNOMIAL[1]
           IN  /\ Len(X) = Len(split[1].x_train)
               /\ \A k \in 1..Len(X) :
                     /\ Len(X[k]) = d
                     /\ \A j \in 1..d : X[k][j] = Pow(split[1].x_train[k], j)
               /\ model # None => Len(model[1].coef_) = d

\* C9 amended: the matrix the library fitter is trained on keeps the
\* constant column: each row is [1, x, x^2, ..., x^d], d + 1 columns, one
\* row per training sample, and the fitted weight vector has d + 1 weights,
\* one per column, the constant column included.
C9_InterceptColumnKept ==
    (design # None /\ ALGORITHM_TYPE[1] = "gradient")
        => LET X == design[1].train
               d == DEGREE_OF_POLYNOMIAL[1]
           IN  /\ d >= 0
               /\ Len(X) = Len(split[1].x_train)
               /\ \A k \in 1..Len(X) :
                     /\ Len(X[k]) = d + 1
                     /\ \A j \in 0..d : X[k][j + 1] = Pow(split[1].x_train[k], j)
               /\ model # None => Len(model[1].coef_) = d + 1

C9_Witness ==
    /\ model # None
    /\ ALGORITHM_TYPE[1] = "gradient"
    /\ DEGREE_OF_POLYNOMIAL[1] = 2
    /\ Len(split[1].x_train) = 3

\* The rows of the table that satisfy keep, as <<x, y>> pairs in the order
\* of the table.
Kept(rows, keep(_)) ==
    LET idx == {k \in 1..Len(rows) : keep(rows[k])}
        nth(i) == CHOOSE k \in idx : Cardinality({m \in idx : m < k}) = i - 1
    IN  [i \in 1..Cardinality(idx) |->
            <<rows[nth(i)][1][1], rows[nth(i)][Len(rows[nth(i)])][1]>>]

HasXY(r) == r[1] # NaN /\ r[Len(r)] # NaN

Complete(r) == \A j \in 1..Len(r) : r[j] # NaN

\* C10 as stated: preprocess_data returns exactly the rows whose first and
\* last values are both present, in the original order, and raises nothing.
C10_DropsOnlyMissingXY ==
    data # None
        => /\ data[1] = Kept(data_frame.rows, HasXY)
           /\ error = None

\* C10 amended: preprocess_data returns exactly the rows in which no column
\* is missing (with two columns: the rows whose x and y are both present),
\* in the original order, and raises nothing; a row with x and y present is
\* dropped when another of its columns is missing.
C10_DropsAnyMissing ==
    data # None
        => /\ data[1] = Kept(data_frame.rows, Complete)
           /\ error = None

C10_Witness ==
    /\ data # None
    /\ Len(data_frame.rows) = 2
    /\ HasXY(data_frame.rows[1]) /\ ~Complete(data_frame.rows[1])
    /\ Complete(data_frame.rows[2])
    /\ Len(data[1]) = 1

====
